---- MODULE Spec2Model ----
(***************************************************************************)
(* A model of redcapy.py: the Redcapy client, its request builders (one    *)
(* per public method) and the response handling of __core_api_code.        *)
(*                                                                         *)
(* Python values are sequences of tokens.  A Python str is the sequence of *)
(* its characters, where a token stands for one character or for an        *)
(* indivisible run of characters (a JSON string literal, an XML tag, a URL *)
(* scheme).  A value that is not a str starts with a marker token:         *)
(* <<"#None">>, <<"#int", "7">>, <<"#list", ...>>.                         *)
(***************************************************************************)
EXTENDS Integers, Sequences, FiniteSets, TLC

VARIABLES redcap_token, redcap_url, pc, op, args, kwargs, post_data, mode,
          diag, status, body, result, nreq, tried, overridden

vars == <<redcap_token, redcap_url, pc, op, args, kwargs, post_data, mode,
          diag, status, body, result, nreq, tried, overridden>>

\* The largest number of keyword overrides one call is given.
MaxKwargs == 2

(***************************************************************************)
(* Python values                                                           *)
(***************************************************************************)
S(x) == <<x>>

None == <<"#None">>

Int7 == <<"#int", "7">>

Markers == {"#None", "#int", "#list"}

\* isinstance(v, str) / type(v) == str
IsStr(v) == v = <<>> \/ Head(v) \notin Markers

\* str(v)
Str(v) ==
    IF IsStr(v) THEN v
    ELSE IF v = None THEN <<"N", "o", "n", "e">>
    ELSE Tail(v)

\* bool(v), as in "if repeat_instance:"
Truthy(v) == v # <<>> /\ v # None /\ v # <<"#int", "0">> /\ v # <<"#list">>

(***************************************************************************)
(* json.loads and json.dumps.  A decoded JSON value is represented by its  *)
(* json.dumps text (separators ", " and ": "), so that decoding followed   *)
(* by encoding is not the identity on texts.                               *)
(***************************************************************************)
NoFileMsg == "\"There is no file to delete for this record\""

NumToks == {"1"}

StrToks == {"\"a\"", "\"error\"", "\"bad request\"", NoFileMsg}

ParseFail == [ok |-> FALSE, out |-> <<>>, next |-> 0, kind |-> "none", members |-> <<>>]

RECURSIVE SkipWs(_, _)
SkipWs(s, i) == IF i <= Len(s) /\ s[i] = " " THEN SkipWs(s, i + 1) ELSE i

Tok(s, i) == IF i <= Len(s) THEN s[i] ELSE "#eof"

RECURSIVE ParseValue(_, _)
RECURSIVE ParseElems(_, _, _)
RECURSIVE ParseMembers(_, _, _, _)

ParseElems(s, i, acc) ==
    LET v == ParseValue(s, i)
        k == SkipWs(s, v.next)
    IN  IF ~v.ok THEN ParseFail
        ELSE IF Tok(s, k) = "," THEN ParseElems(s, k + 1, acc \o v.out \o <<",", " ">>)
        ELSE IF Tok(s, k) = "]"
             THEN [ok |-> TRUE, out |-> acc \o v.out \o <<"]">>, next |-> k + 1,
                   kind |-> "array", members |-> <<>>]
        ELSE ParseFail

ParseMembers(s, i, acc, mem) ==
    LET j == SkipWs(s, i)
        k == SkipWs(s, j + 1)
        v == ParseValue(s, k + 1)
        e == SkipWs(s, v.next)
        out == acc \o <<s[j], ":", " ">> \o v.out
        mem2 == Append(mem, <<s[j], v.out>>)
    IN  IF Tok(s, j) \notin StrToks \/ Tok(s, k) # ":" THEN ParseFail
        ELSE IF ~v.ok THEN ParseFail
        ELSE IF Tok(s, e) = "," THEN ParseMembers(s, e + 1, out \o <<",", " ">>, mem2)
        ELSE IF Tok(s, e) = "}"
             THEN [ok |-> TRUE, out |-> out \o <<"}">>, next |-> e + 1,
                   kind |-> "object", members |-> mem2]
        ELSE ParseFail

ParseValue(s, i) ==
    LET j == SkipWs(s, i)
        t == Tok(s, j)
        k == SkipWs(s, j + 1)
    IN  IF t \in NumToks
        THEN [ok |-> TRUE, out |-> <<t>>, next |-> j + 1, kind |-> "number", members |-> <<>>]
        ELSE IF t \in StrToks
        THEN [ok |-> TRUE, out |-> <<t>>, next |-> j + 1, kind |-> "string", members |-> <<>>]
        ELSE IF t = "["
        THEN IF Tok(s, k) = "]"
             THEN [ok |-> TRUE, out |-> <<"[", "]">>, next |-> k + 1,
                   kind |-> "array", members |-> <<>>]
             ELSE ParseElems(s, j + 1, <<"[">>)
        ELSE IF t = "{"
        THEN IF Tok(s, k) = "}"
             THEN [ok |-> TRUE, out |-> <<"{", "}">>, next |-> k + 1,
                   kind |-> "object", members |-> <<>>]
             ELSE ParseMembers(s, j + 1, <<"{">>, <<>>)
        ELSE ParseFail

\* json.loads(s): ok is FALSE when it raises.
JsonLoads(s) ==
    LET v == ParseValue(s, 1)
    IN  IF IsStr(s) /\ v.ok /\ SkipWs(s, v.next) > Len(s) THEN v ELSE ParseFail

\* json.dumps([v]) for a decoded value v
JsonDumpsList(v) == <<"[">> \o v.out \o <<"]">>

\* v[key] for a decoded value: ok is FALSE when the subscript raises (KeyError
\* for an object without the key, TypeError for anything but an object).
Subscript(v, key) ==
    LET hits == {n \in 1..Len(v.members) : v.members[n][1] = key}
    IN  IF v.kind = "object" /\ hits # {}
        THEN [ok |-> TRUE, val |-> v.members[CHOOSE n \in hits : \A m \in hits : m <= n][2]]
        ELSE [ok |-> FALSE, val |-> <<>>]

(***************************************************************************)
(* __find_url: the first match of                                          *)
(*   http[s]?://(?:[a-zA-Z]|[0-9]|[$-_@.&+]| [! * \(\),] | (?: %hh))+      *)
(* The class [$-_] is the range 0x24..0x5F, so brackets, colon, comma and  *)
(* angle brackets are URL characters; braces, quotes and blanks are not.   *)
(* A blank is matched only as the first and last character of the          *)
(* three-character alternative " x " with x one of "! *(),".               *)
(***************************************************************************)
SchemeToks == {"http://", "https://"}

UrlToks == SchemeToks \cup {"u", "N", "o", "n", "e", "1", "7", "[", "]", ":", ",",
                            "<hash>", "</hash>", "<error>", "</error>"}

PunctToks == {"!", " ", "*", "(", ")", ","}

RECURSIVE MatchEnd(_, _)
\* the position after the longest run of pattern alternatives starting at j
MatchEnd(s, j) ==
    IF j > Len(s) THEN j
    ELSE IF s[j] \in UrlToks THEN MatchEnd(s, j + 1)
    ELSE IF s[j] = " " /\ j + 2 <= Len(s) /\ s[j + 1] \in PunctToks /\ s[j + 2] = " "
         THEN MatchEnd(s, j + 3)
    ELSE j

find_url(s) ==
    LET starts == {i \in 1..Len(s) : s[i] \in SchemeToks /\ MatchEnd(s, i + 1) > i + 1}
        first == CHOOSE i \in starts : \A m \in starts : i <= m
    IN  IF starts = {} THEN <<>> ELSE SubSeq(s, first, MatchEnd(s, first + 1) - 1)

(***************************************************************************)
(* BeautifulSoup(text, 'xml').hash.error.get_text(): the text of the first *)
(* error element inside the first hash element; ok is FALSE when the       *)
(* attribute access raises because there is no such element.               *)
(***************************************************************************)
TagToks == {"<hash>", "</hash>", "<error>", "</error>"}

FirstAt(s, from, t) ==
    LET hits == {i \in from..Len(s) : s[i] = t}
    IN  IF hits = {} THEN Len(s) + 1 ELSE CHOOSE i \in hits : \A m \in hits : i <= m

XmlErrorText(s) ==
    LET h == FirstAt(s, 1, "<hash>")
        hend == FirstAt(s, h + 1, "</hash>")
        e == FirstAt(s, h + 1, "<error>")
        eend == FirstAt(s, e + 1, "</error>")
        inner == SubSeq(s, e + 1, eend - 1)
    IN  IF h > Len(s) \/ e >= hend
        THEN [ok |-> FALSE, text |-> <<>>]
        ELSE [ok |-> TRUE, text |-> SelectSeq(inner, LAMBDA t : t \notin TagToks)]

(***************************************************************************)
(* The request descriptors: each public method's default post_data and the *)
(* keys its keyword overrides may set.                                     *)
(***************************************************************************)
Ops == {"export_events", "export_data_dictionary", "export_survey_link",
        "export_survey_participants", "export_records", "import_records",
        "delete_record", "delete_form", "import_file", "export_file", "delete_file"}

\* The positional arguments of a call; a method reads the ones it declares.
NoArgs == [instrument |-> None, event |-> None, record |-> None, field |-> None,
           data |-> None, filename |-> None, repeat_instance |-> None]

PostDataLiteral(o, a, tok) ==
    CASE o = "export_events" ->
           [token |-> tok, content |-> S("event"), format |-> S("json"),
            returnFormat |-> S("json")]
      [] o = "export_data_dictionary" ->
           [token |-> tok, content |-> S("metadata"), format |-> S("json"),
            returnFormat |-> S("json")]
      [] o = "export_survey_link" ->
           [token |-> tok, content |-> S("surveyLink"), format |-> S("json"),
            instrument |-> a.instrument, event |-> a.event, record |-> a.record,
            returnFormat |-> S("json")]
      [] o = "export_survey_participants" ->
           [token |-> tok, content |-> S("participantList"), format |-> S("json"),
            instrument |-> a.instrument, event |-> a.event, returnFormat |-> S("json")]
      [] o = "export_records" ->
           [token |-> tok, content |-> S("record"), format |-> S("json"),
            type |-> S("flat"), rawOrLabel |-> S("raw"), rawOrLabelHeaders |-> S("raw"),
            exportCheckboxLabel |-> S("false"), exportSurveyFields |-> S("false"),
            exportDataAccessGroups |-> S("false"), returnFormat |-> S("json")]
      [] o = "import_records" ->
           [token |-> tok, content |-> S("record"), format |-> S("json"),
            type |-> S("flat"), overwriteBehavior |-> S("normal"), data |-> a.data,
            dateFormat |-> S("YMD"), returnContent |-> S("count"),
            returnFormat |-> S("json")]
      [] o = "delete_record" ->
           [token |-> tok, action |-> S("delete"), content |-> S("record")]
             @@ ("records[0]" :> a.record)
      [] o = "delete_form" ->
           [token |-> tok, content |-> S("file"), action |-> S("delete"),
            record |-> a.record, field |-> a.field, event |-> a.event,
            repeat_instance |-> a.repeat_instance]
      [] o = "import_file" ->
           IF Truthy(a.repeat_instance)
           THEN [token |-> tok, content |-> S("file"), format |-> S("json"),
                 action |-> S("import"), record |-> a.record, field |-> a.field,
                 event |-> a.event, returnFormat |-> S("json"), file |-> a.filename,
                 repeat_instance |-> Str(a.repeat_instance)]
           ELSE [token |-> tok, content |-> S("file"), format |-> S("json"),
                 action |-> S("import"), record |-> a.record, field |-> a.field,
                 event |-> a.event, returnFormat |-> S("json"), file |-> a.filename]

\* a slip: the other attribute of the client is read for the token
DefaultPostDataFromUrl(o, a) == PostDataLiteral(o, a, redcap_url)

\* "post_data = {'token': self.redcap_token, ...}"
DefaultPostData(o, a) == PostDataLiteral(o, a, redcap_token)

AllowList(o) ==
    CASE o = "export_events" -> {"token", "content", "format", "arms", "returnFormat"}
      [] o = "export_data_dictionary" ->
           {"token", "content", "format", "fields", "forms", "returnFormat"}
      [] o = "export_survey_link" -> {"token", "content", "format", "returnFormat"}
      [] o = "export_survey_participants" -> {"token", "content", "format", "returnFormat"}
      [] o = "export_records" ->
           {"fields", "forms", "events", "token", "content", "format", "type",
            "rawOrLabel", "rawOrLabelHeaders", "exportCheckboxLabel",
            "exportSurveyFields", "exportDataAccessGroups", "returnFormat"}
      [] o = "import_records" ->
           {"token", "content", "format", "type", "overwriteBehavior", "data",
            "dateFormat", "returnContent", "returnFormat"}
      [] o = "delete_record" -> {"token", "content", "records[0]", "arm"}
      [] o = "delete_form" ->
           {"token", "content", "action", "records[0]", "field", "event", "repeat_instance"}
      [] o = "import_file" ->
           {"token", "content", "format", "action", "record", "field", "event",
            "returnContent", "file"}

\* The names of a method's declared parameters: Python binds a keyword of such
\* a name to the parameter, so it never reaches **kwargs.
ParamNames(o) ==
    CASE o = "export_survey_link" -> {"instrument", "event", "record"}
      [] o = "export_survey_participants" -> {"instrument", "event"}
      [] o = "import_records" -> {"data_to_upload"}
      [] o = "delete_record" -> {"id_to_delete"}
      [] o = "delete_form" -> {"id", "field", "event", "repeat_instance"}
      [] o = "import_file" -> {"record_id", "field", "event", "filename", "repeat_instance"}
      [] OTHER -> {}

\* a slip: post_data.setdefault(key, value), which keeps a default already there
ApplyOverridesSetDefault(pd, kw, allow, asStr) ==
    LET applied == (DOMAIN kw \cap allow) \ DOMAIN pd
    IN  [k \in DOMAIN pd \cup applied |->
            IF k \in applied THEN (IF asStr THEN Str(kw[k]) ELSE kw[k]) ELSE pd[k]]

\* a slip: the loop without its test of the key
ApplyOverridesUnchecked(pd, kw, allow, asStr) ==
    [k \in DOMAIN pd \cup DOMAIN kw |->
        IF k \in DOMAIN kw THEN (IF asStr THEN Str(kw[k]) ELSE kw[k]) ELSE pd[k]]

\* post_data after "for key, value in kwargs.items(): if key in [...]:
\* post_data[key] = kwargs[key]"; import_file stores str(kwargs[key]).
ApplyOverrides(pd, kw, allow, asStr) ==
    LET applied == DOMAIN kw \cap allow
    IN  [k \in DOMAIN pd \cup applied |->
            IF k \in applied THEN (IF asStr THEN Str(kw[k]) ELSE kw[k]) ELSE pd[k]]

\* what the else branch of that loop prints
Rejected(kw, allow) == {<<k, " is not a valid key">> : k \in DOMAIN kw \ allow}

ParseDiag == <<"Please check if the data_to_upload field is formatted properly for conversion to JSON">>

\* a slip: json.dumps(json.loads(data_to_upload)), without the list around it
NormalizeDataNoWrap(pd, data) ==
    LET j == JsonLoads(data)
    IN  IF pd["format"] = S("json") /\ IsStr(data) /\ SubSeq(data, 1, 1) # <<"[">>
        THEN IF j.ok
             THEN [post_data |-> [pd EXCEPT !["data"] = j.out], diag |-> {}]
             ELSE [post_data |-> pd, diag |-> {ParseDiag}]
        ELSE [post_data |-> pd, diag |-> {}]

\* import_records, "if post_data['format'] == 'json': ...": the data field
\* finally sent and what is printed on the way.
NormalizeData(pd, data) ==
    LET j == JsonLoads(data)
    IN  IF pd["format"] = S("json") /\ IsStr(data) /\ SubSeq(data, 1, 1) # <<"[">>
        THEN IF j.ok
             THEN [post_data |-> [pd EXCEPT !["data"] = JsonDumpsList(j)], diag |-> {}]
             ELSE [post_data |-> pd, diag |-> {ParseDiag}]
        ELSE [post_data |-> pd, diag |-> {}]

ExportDiag == <<"File export method not yet implemented">>

\* a slip: action 'export' sent to the server, as in the line commented out
ImportFileDispatchExportSends(pd, kw) ==
    LET act == IF "action" \in DOMAIN kw THEN kw["action"] ELSE None
        popped == IF act \in {S("export"), S("delete")}
                  THEN [k \in DOMAIN pd \ {"file"} |-> pd[k]]
                  ELSE pd
    IN  [post_data |-> popped,
         mode |-> IF act = S("delete") THEN "delete"
                  ELSE IF act = S("export") THEN "plain" ELSE "import",
         diag |-> {}]

\* a slip: action 'delete' not told from an upload
ImportFileDispatchDeleteAsImport(pd, kw) ==
    LET act == IF "action" \in DOMAIN kw THEN kw["action"] ELSE None
        popped == IF act = S("export")
                  THEN [k \in DOMAIN pd \ {"file"} |-> pd[k]]
                  ELSE pd
    IN  [post_data |-> popped,
         mode |-> IF act = S("export") THEN "none" ELSE "import",
         diag |-> IF act = S("export") THEN {ExportDiag} ELSE {}]

\* import_file from its override loop on: the descriptor, the flag passed to
\* __core_api_code ("import", "delete") or "none" when no request is made.
ImportFileDispatch(pd, kw) ==
    LET act == IF "action" \in DOMAIN kw THEN kw["action"] ELSE None
        popped == IF act \in {S("export"), S("delete")}
                  THEN [k \in DOMAIN pd \ {"file"} |-> pd[k]]
                  ELSE pd
    IN  [post_data |-> popped,
         mode |-> IF act = S("delete") THEN "delete"
                  ELSE IF act = S("export") THEN "none" ELSE "import",
         diag |-> IF act = S("export") THEN {ExportDiag} ELSE {}]

\* A public method up to its call of __core_api_code: the descriptor it has
\* built, the flag it passes ("plain" for neither flag, "none" when it returns
\* without a request) and what it has printed.
BuildRequest(o, a, kw) ==
    LET pd == ApplyOverrides(DefaultPostData(o, a), kw, AllowList(o), o = "import_file")
        rej == Rejected(kw, AllowList(o))
        n == NormalizeData(pd, a.data)
        d == ImportFileDispatch(pd, kw)
    IN  CASE o = "import_records" ->
               [post_data |-> n.post_data, mode |-> "plain", diag |-> rej \cup n.diag]
          [] o = "import_file" ->
               [post_data |-> d.post_data, mode |-> d.mode, diag |-> rej \cup d.diag]
          [] OTHER -> [post_data |-> pd, mode |-> "plain", diag |-> rej]

(***************************************************************************)
(* __core_api_code after requests.post has returned                        *)
(***************************************************************************)
True == [k |-> "bool", v |-> <<"True">>]

False == [k |-> "bool", v |-> <<"False">>]

NoneResult == [k |-> "none", v |-> <<>>]

Pending == [k |-> "pending", v |-> <<>>]

Exit == [k |-> "exit", v |-> <<"Critical: Unable to connect to Redcap server. Aborting execution.">>]

StrResult(s) == [k |-> "str", v |-> s]

JsonResult(j) == [k |-> "json", v |-> j.out]

StatusDiag == "Critical: Redcap server returned a status code other than 200. Error received from Redcap: "

NotJsonXmlDiag == "Error: Data returned from Redcap was not a JSON nor XML object. Data: "

NoFilePrinted == <<"There is no file to delete for this record">>

\* a slip: the message compared with another text, so that it never matches
NoFileTestNever(st, b) ==
    LET j == JsonLoads(b)
        e == Subscript(j, "\"error\"")
    IN  IF st = 400 /\ (~j.ok \/ ~e.ok) THEN "raise" ELSE "no"

\* "if r.status_code == 400 and json.loads(r.text)['error'] == '...'": "raise"
\* when the test raises inside the try block, else "yes" or "no".
NoFileTest(st, b) ==
    LET j == JsonLoads(b)
        e == Subscript(j, "\"error\"")
    IN  IF st # 400 THEN "no"
        ELSE IF ~j.ok \/ ~e.ok THEN "raise"
        ELSE IF e.val = <<NoFileMsg>> THEN "yes" ELSE "no"

\* a slip: the text of the failure is returned in place of False
StatusFailureReturnsText(st, b) ==
    LET x == XmlErrorText(b)
    IN  [pc |-> "returned", result |-> StrResult(IF x.ok THEN x.text ELSE b),
         diag |-> {<<StatusDiag>> \o (IF x.ok THEN x.text ELSE b)},
         tried |-> (IF st = 400 THEN {"json"} ELSE {}) \cup {"xml"}]

\* "elif r.status_code != 200": the message printed before "return False"
StatusFailure(st, b) ==
    LET x == XmlErrorText(b)
    IN  [pc |-> "returned", result |-> False,
         diag |-> {<<StatusDiag>> \o (IF x.ok THEN x.text ELSE b)},
         tried |-> (IF st = 400 THEN {"json"} ELSE {}) \cup {"xml"}]

\* "export_survey_link returns a URL as a str, so try this first"
IsBareUrl(b) == b # <<>> /\ IsStr(b) /\ find_url(b) = b

\* a slip: the error field of a JSON object is returned in place of the object
DecodeBodyErrorField(b) ==
    LET j == JsonLoads(b)
        e == Subscript(j, "\"error\"")
        x == XmlErrorText(b)
    IN  IF j.ok /\ e.ok
        THEN [pc |-> "returned", result |-> StrResult(e.val), diag |-> {}, tried |-> {"json"}]
        ELSE IF j.ok
        THEN [pc |-> "returned", result |-> JsonResult(j), diag |-> {}, tried |-> {"json"}]
        ELSE IF x.ok
        THEN [pc |-> "returned", result |-> StrResult(x.text), diag |-> {},
              tried |-> {"json", "xml"}]
        ELSE [pc |-> "returned", result |-> StrResult(b),
              diag |-> {<<NotJsonXmlDiag>> \o b}, tried |-> {"json", "xml"}]

\* a slip: the XML error envelope is not looked into
DecodeBodyNoXml(b) ==
    LET j == JsonLoads(b)
    IN  IF j.ok
        THEN [pc |-> "returned", result |-> JsonResult(j), diag |-> {}, tried |-> {"json"}]
        ELSE [pc |-> "returned", result |-> StrResult(b),
              diag |-> {<<NotJsonXmlDiag>> \o b}, tried |-> {"json"}]

\* the "try: return json.loads(return_value) except ..." cascade
DecodeBody(b) ==
    LET j == JsonLoads(b)
        x == XmlErrorText(b)
    IN  IF j.ok
        THEN [pc |-> "returned", result |-> JsonResult(j), diag |-> {}, tried |-> {"json"}]
        ELSE IF x.ok
        THEN [pc |-> "returned", result |-> StrResult(x.text), diag |-> {},
              tried |-> {"json", "xml"}]
        ELSE [pc |-> "returned", result |-> StrResult(b),
              diag |-> {<<NotJsonXmlDiag>> \o b}, tried |-> {"json", "xml"}]

\* a slip: the URL test is left out
ClassifyBodyNoUrl(m, b) ==
    LET d == DecodeBody(b)
    IN  IF m = "delete" /\ Len(b) = 0
        THEN [pc |-> "returned", result |-> True, diag |-> {}, tried |-> {}]
        ELSE IF (Len(b) > 0 /\ m = "import") \/ m # "import"
        THEN d
        ELSE [pc |-> "returned", result |-> True, diag |-> {}, tried |-> {}]

\* a slip: the empty body of a file delete is not singled out
ClassifyBodyNoDelete(m, b) ==
    LET d == DecodeBody(b)
        u == IF b # <<>> /\ IsStr(b) THEN {"url"} ELSE {}
    IN  IF IsBareUrl(b)
        THEN [pc |-> "returned", result |-> StrResult(b), diag |-> {}, tried |-> u]
        ELSE IF (Len(b) > 0 /\ m = "import") \/ m # "import"
        THEN [d EXCEPT !.tried = @ \cup u]
        ELSE [pc |-> "returned", result |-> True, diag |-> {}, tried |-> u]

\* the handling of a body received with status 200
ClassifyBody(m, b) ==
    LET d == DecodeBody(b)
        u == IF b # <<>> /\ IsStr(b) THEN {"url"} ELSE {}
    IN  IF IsBareUrl(b)
        THEN [pc |-> "returned", result |-> StrResult(b), diag |-> {}, tried |-> u]
        ELSE IF m = "delete" /\ Len(b) = 0
        THEN [pc |-> "returned", result |-> True, diag |-> {}, tried |-> u]
        ELSE IF (Len(b) > 0 /\ m = "import") \/ m # "import"
        THEN [d EXCEPT !.tried = @ \cup u]
        ELSE [pc |-> "returned", result |-> True, diag |-> {}, tried |-> u]

\* everything __core_api_code does with the response (status st, text b)
core_api_code(m, st, b) ==
    LET t == NoFileTest(st, b)
    IN  IF t = "raise"
        THEN [pc |-> "exited", result |-> Exit, diag |-> {}, tried |-> {"json"}]
        ELSE IF t = "yes"
        THEN [pc |-> "returned", result |-> True, diag |-> {NoFilePrinted}, tried |-> {"json"}]
        ELSE IF st # 200 THEN StatusFailure(st, b)
        ELSE ClassifyBody(m, b)

(***************************************************************************)
(* What callers pass and what the server answers                           *)
(***************************************************************************)
Token == S("tok")

Url == S("https://redcap/api/")

Records == {S("r1"), S("r2")}

Fields == {S("f1")}

Events == {S("e1")}

Instruments == {S("i1")}

Filenames == {S("/p/f"), None}

RepeatInstances == {None, Int7}

\* data_to_upload: '{"a":1}', '[{"a":1}]', ' [1]', '{"a"' and a list object
PayloadObj == <<"{", "\"a\"", ":", "1", "}">>

PayloadArr == <<"[", "{", "\"a\"", ":", "1", "}", "]">>

PayloadWsArr == <<" ", "[", "1", "]">>

PayloadBad == <<"{", "\"a\"">>

PayloadList == <<"#list", "1">>

Payloads == {PayloadObj, PayloadArr, PayloadWsArr, PayloadBad, PayloadList}

OverrideValues(key) ==
    CASE key = "format" -> {S("json"), S("csv")}
      [] key = "action" -> {S("import"), S("delete"), S("export")}
      [] key = "data" -> {PayloadArr, PayloadBad}
      [] OTHER -> {S("x"), Int7}

AllOverrideValues ==
    UNION {OverrideValues(k) : k \in {"format", "action", "data", "token"}}

\* the keys a call of o can carry in **kwargs
KeyChoices(o) ==
    (AllowList(o) \cup DOMAIN DefaultPostData(o, NoArgs) \cup {"bogus"}) \ ParamNames(o)

Kwargs(o) ==
    UNION {{kw \in [ks -> AllOverrideValues] : \A k \in ks : kw[k] \in OverrideValues(k)} :
           ks \in {x \in SUBSET KeyChoices(o) : Cardinality(x) <= MaxKwargs}}

NoKwargs == [k \in {} |-> <<>>]

Statuses == {200, 201, 400, 500}

BodyNoFile == <<"{", "\"error\"", ":", NoFileMsg, "}">>

BodyError == <<"{", "\"error\"", ":", "\"bad request\"", "}">>

BodyXmlError == <<"<hash>", "<error>", "u", "u", "</error>", "</hash>">>

Bodies ==
    {<<>>,
     <<"https://", "u">>, <<"http://", "u", " ", ",", " ", "u">>,
     <<"http://", "u", " ", "u">>, <<"http://">>,
     BodyNoFile, BodyError, PayloadObj, <<"[", "1", ",", "\"a\"", "]">>, <<"1">>,
     BodyXmlError, <<"<hash>", "u", "</hash>">>,
     <<"u">>, PayloadBad}

(***************************************************************************)
(* The client and its calls.  pc is "idle" between calls, "request" while  *)
(* requests.post is awaited, "returned" when the call has handed its       *)
(* result to the caller and "exited" after sys.exit.  overridden records    *)
(* that some call made on the client so far was given a 'token' or a       *)
(* 'content' override.                                                     *)
(***************************************************************************)
Init ==
    /\ redcap_token = Token
    /\ redcap_url = Url
    /\ pc = "idle"
    /\ op = "none"
    /\ args = NoArgs
    /\ kwargs = NoKwargs
    /\ post_data = NoKwargs
    /\ mode = "none"
    /\ diag = {}
    /\ status = 0
    /\ body = <<>>
    /\ result = Pending
    /\ nreq = 0
    /\ tried = {}
    /\ overridden = FALSE

\* the caller of method o gave it a 'token' or a 'content' override
GivenTokenOrContent(o, kw) ==
    o # "delete_file" /\ DOMAIN kw \cap {"token", "content"} # {}

\* a slip: the token of the descriptor kept as the client's token
BeginStoresToken(o, a, kw, pd, dg, m) ==
    /\ op' = o
    /\ args' = a
    /\ kwargs' = kw
    /\ post_data' = pd
    /\ diag' = dg
    /\ mode' = m
    /\ pc' = "request"
    /\ overridden' = (overridden \/ GivenTokenOrContent(o, kw))
    /\ redcap_token' = pd["token"]
    /\ UNCHANGED <<redcap_url, status, body, result, nreq, tried>>

\* a method has built post_data and calls __core_api_code(post_data, flag m)
Begin(o, a, kw, pd, dg, m) ==
    /\ op' = o
    /\ args' = a
    /\ kwargs' = kw
    /\ post_data' = pd
    /\ diag' = dg
    /\ mode' = m
    /\ pc' = "request"
    /\ overridden' = (overridden \/ GivenTokenOrContent(o, kw))
    /\ UNCHANGED <<redcap_token, redcap_url, status, body, result, nreq, tried>>

\* a method returns r without calling __core_api_code
Finish(o, a, kw, pd, dg, r) ==
    /\ op' = o
    /\ args' = a
    /\ kwargs' = kw
    /\ post_data' = pd
    /\ diag' = dg
    /\ mode' = "none"
    /\ pc' = "returned"
    /\ result' = r
    /\ overridden' = (overridden \/ GivenTokenOrContent(o, kw))
    /\ UNCHANGED <<redcap_token, redcap_url, status, body, nreq, tried>>

\* method m runs the body of o (delete_file runs import_file's) on a and kw
Call(m, o, a, kw) ==
    \E b \in {BuildRequest(o, a, kw)} :
        IF b.mode = "none"
        THEN Finish(m, a, kw, b.post_data, b.diag, False)
        ELSE Begin(m, a, kw, b.post_data, b.diag, b.mode)

export_events ==
    /\ pc = "idle"
    /\ \E kw \in Kwargs("export_events") :
          Call("export_events", "export_events", NoArgs, kw)

export_data_dictionary ==
    /\ pc = "idle"
    /\ \E kw \in Kwargs("export_data_dictionary") :
          Call("export_data_dictionary", "export_data_dictionary", NoArgs, kw)

export_survey_link ==
    /\ pc = "idle"
    /\ \E i \in Instruments, e \in Events, r \in Records, kw \in Kwargs("export_survey_link") :
          Call("export_survey_link", "export_survey_link",
               [NoArgs EXCEPT !.instrument = i, !.event = e, !.record = r], kw)

export_survey_participants ==
    /\ pc = "idle"
    /\ \E i \in Instruments, e \in Events, kw \in Kwargs("export_survey_participants") :
          Call("export_survey_participants", "export_survey_participants",
               [NoArgs EXCEPT !.instrument = i, !.event = e], kw)

export_records ==
    /\ pc = "idle"
    /\ \E kw \in Kwargs("export_records") :
          Call("export_records", "export_records", NoArgs, kw)

import_records ==
    /\ pc = "idle"
    /\ \E d \in Payloads, kw \in Kwargs("import_records") :
          Call("import_records", "import_records", [NoArgs EXCEPT !.data = d], kw)

delete_record ==
    /\ pc = "idle"
    /\ \E r \in Records, kw \in Kwargs("delete_record") :
          Call("delete_record", "delete_record", [NoArgs EXCEPT !.record = r], kw)

delete_form ==
    /\ pc = "idle"
    /\ \E r \in Records, f \in Fields, e \in Events, kw \in Kwargs("delete_form") :
          Call("delete_form", "delete_form",
               [NoArgs EXCEPT !.record = r, !.field = f, !.event = e,
                              !.repeat_instance = S("1")], kw)

import_file ==
    /\ pc = "idle"
    /\ \E r \in Records, f \in Fields, e \in Events, fn \in Filenames,
          ri \in RepeatInstances, kw \in Kwargs("import_file") :
          Call("import_file", "import_file",
               [NoArgs EXCEPT !.record = r, !.field = f, !.event = e,
                              !.filename = fn, !.repeat_instance = ri], kw)

export_file ==
    /\ pc = "idle"
    /\ \E r \in Records, f \in Fields, e \in Events, ri \in RepeatInstances :
          Finish("export_file",
                 [NoArgs EXCEPT !.record = r, !.field = f, !.event = e,
                                !.repeat_instance = ri],
                 NoKwargs, NoKwargs, {}, NoneResult)

delete_file ==
    /\ pc = "idle"
    /\ \E r \in Records, f \in Fields, e \in Events, ri \in RepeatInstances :
          Call("delete_file", "import_file",
               [NoArgs EXCEPT !.record = r, !.field = f, !.event = e,
                              !.repeat_instance = ri],
               "action" :> S("delete"))

\* open(post_data['file'], 'rb') can succeed only on a path
FileOpens == mode = "import" => ("file" \in DOMAIN post_data /\ IsStr(post_data["file"]))

\* requests.post returns a response and __core_api_code runs to its end
Respond ==
    /\ pc = "request"
    /\ FileOpens
    /\ \E st \in Statuses, b \in Bodies :
          \E r \in {core_api_code(mode, st, b)} :
              /\ status' = st
              /\ body' = b
              /\ pc' = r.pc
              /\ result' = r.result
              /\ diag' = diag \cup r.diag
              /\ tried' = r.tried
    /\ nreq' = nreq + 1
    /\ UNCHANGED <<redcap_token, redcap_url, op, args, kwargs, post_data, mode,
                   overridden>>

\* requests.post raises: "except Exception" calls sys.exit
ConnectionFailure ==
    /\ pc = "request"
    /\ FileOpens
    /\ pc' = "exited"
    /\ result' = Exit
    /\ nreq' = nreq + 1
    /\ UNCHANGED <<redcap_token, redcap_url, op, args, kwargs, post_data, mode,
                   diag, status, body, tried, overridden>>

\* open(post_data['file'], 'rb') raises before any request is made
FileOpenFailure ==
    /\ pc = "request"
    /\ mode = "import"
    /\ pc' = "exited"
    /\ result' = Exit
    /\ UNCHANGED <<redcap_token, redcap_url, op, args, kwargs, post_data, mode,
                   diag, status, body, nreq, tried, overridden>>

\* the caller has the result; the call's locals are gone
Return ==
    /\ pc = "returned"
    /\ pc' = "idle"
    /\ op' = "none"
    /\ args' = NoArgs
    /\ kwargs' = NoKwargs
    /\ post_data' = NoKwargs
    /\ mode' = "none"
    /\ diag' = {}
    /\ status' = 0
    /\ body' = <<>>
    /\ result' = Pending
    /\ nreq' = 0
    /\ tried' = {}
    /\ UNCHANGED <<redcap_token, redcap_url, overridden>>

Next ==
    \/ export_events
    \/ export_data_dictionary
    \/ export_survey_link
    \/ export_survey_participants
    \/ export_records
    \/ import_records
    \/ delete_record
    \/ delete_form
    \/ import_file
    \/ export_file
    \/ delete_file
    \/ Respond
    \/ ConnectionFailure
    \/ FileOpenFailure
    \/ Return

Spec == Init /\ [][Next]_vars

(***************************************************************************)
(* Properties of the request descriptor                                    *)
(***************************************************************************)
\* the methods that take keyword overrides
OverrideOps == Ops \ {"export_file", "delete_file"}

\* the current call has run its override loop
Built == pc # "idle" /\ op \in OverrideOps

Applied == DOMAIN kwargs \cap AllowList(op)

NotAllowed == DOMAIN kwargs \ AllowList(op)

Without(kw, key) == [k \in DOMAIN kw \ {key} |-> kw[k]]

\* the descriptor the current call sends when it is given no override
Unoverridden == BuildRequest(op, args, NoKwargs).post_data

EffectiveFormat == IF "format" \in DOMAIN kwargs THEN kwargs["format"] ELSE S("json")

\* import_records rewrites the data field from the positional payload
Rewrites ==
    /\ EffectiveFormat = S("json")
    /\ IsStr(args.data)
    /\ (args.data = <<>> \/ args.data[1] # "[")
    /\ JsonLoads(args.data).ok

\* the data field import_records sends
ExpectedData ==
    IF Rewrites THEN <<"[">> \o JsonLoads(args.data).out \o <<"]">>
    ELSE IF "data" \in DOMAIN kwargs THEN kwargs["data"]
    ELSE args.data

DropsFile ==
    /\ op = "import_file"
    /\ "action" \in DOMAIN kwargs
    /\ kwargs["action"] \in {S("delete"), S("export")}

\* C1 as stated, for import_file given overrides that are strings: every
\* allow-listed override sets its field of the descriptor to the value
\* supplied, and every other field is as it is without overrides (none
\* changed, added or removed).
C1_AsStated ==
    (Built /\ op = "import_file" /\ \A k \in DOMAIN kwargs : IsStr(kwargs[k])) =>
        /\ DOMAIN post_data = DOMAIN Unoverridden \cup Applied
        /\ \A k \in DOMAIN post_data :
              post_data[k] = IF k \in Applied THEN kwargs[k] ELSE Unoverridden[k]

\* C1 as amended: every allow-listed override sets its field to the value
\* supplied (import_file stores its str()), and every other field is as it is
\* without overrides, except that import_file drops the file field under an
\* action override of delete or export (and makes no request under export),
\* and that the data field of import_records is what the payload
\* normalisation leaves: the wrapped positional payload when it rewrites (also
\* over a data override), else the data override or the payload as passed.
C1_OverrideSetsItsField ==
    Built =>
        /\ (DropsFile /\ kwargs["action"] = S("export")) => mode = "none" /\ nreq = 0
        /\ DOMAIN post_data =
              (DOMAIN Unoverridden \cup Applied) \ (IF DropsFile THEN {"file"} ELSE {})
        /\ \A k \in DOMAIN post_data :
              IF op = "import_records" /\ k = "data"
              THEN post_data[k] = ExpectedData
              ELSE post_data[k] =
                      IF k \in Applied
                      THEN (IF op = "import_file" THEN Str(kwargs[k]) ELSE kwargs[k])
                      ELSE Unoverridden[k]

C1_Witness ==
    /\ pc = "returned"
    /\ nreq = 1
    /\ op = "export_records"
    /\ DOMAIN kwargs = {"rawOrLabel", "fields"}
    /\ post_data["rawOrLabel"] = S("x")
    /\ post_data["fields"] = Int7
    /\ post_data["type"] = S("flat")

\* C2: a keyword that is not in the method's allow-list is not applied: the
\* descriptor and the way the request is made are those of the same call
\* without that keyword, "<key> is not a valid key" is printed, and the call
\* goes on to its request.
C2_RejectedKeyNotApplied ==
    Built =>
        \A key \in NotAllowed :
            /\ post_data = BuildRequest(op, args, Without(kwargs, key)).post_data
            /\ mode = BuildRequest(op, args, Without(kwargs, key)).mode
            /\ <<key, " is not a valid key">> \in diag
            /\ mode # "none" => pc = "request" \/ nreq = 1 \/ (pc = "exited" /\ mode = "import")

C2_Witness ==
    /\ pc = "returned"
    /\ nreq = 1
    /\ op = "delete_record"
    /\ DOMAIN kwargs = {"action", "bogus"}
    /\ post_data["action"] = S("delete")
    /\ "bogus" \notin DOMAIN post_data

ContentName ==
    CASE op = "export_events" -> "event"
      [] op = "export_data_dictionary" -> "metadata"
      [] op = "export_survey_link" -> "surveyLink"
      [] op = "export_survey_participants" -> "participantList"
      [] op \in {"export_records", "import_records", "delete_record"} -> "record"
      [] op \in {"delete_form", "import_file", "delete_file"} -> "file"

FieldNames ==
    {"token", "content"} \cup
    CASE op \in {"export_events", "export_data_dictionary"} -> {"format", "returnFormat"}
      [] op = "export_survey_link" -> {"format", "returnFormat", "instrument", "event", "record"}
      [] op = "export_survey_participants" -> {"format", "returnFormat", "instrument", "event"}
      [] op = "export_records" ->
           {"format", "returnFormat", "type", "rawOrLabel", "rawOrLabelHeaders",
            "exportCheckboxLabel", "exportSurveyFields", "exportDataAccessGroups"}
      [] op = "import_records" ->
           {"format", "returnFormat", "type", "overwriteBehavior", "data", "dateFormat",
            "returnContent"}
      [] op = "delete_record" -> {"action", "records[0]"}
      [] op = "delete_form" -> {"action", "record", "field", "event", "repeat_instance"}
      [] op = "import_file" ->
           {"format", "returnFormat", "action", "record", "field", "event", "file"}
             \cup (IF Truthy(args.repeat_instance) THEN {"repeat_instance"} ELSE {})
      [] op = "delete_file" ->
           {"format", "returnFormat", "action", "record", "field", "event"}
             \cup (IF Truthy(args.repeat_instance) THEN {"repeat_instance"} ELSE {})

FixedDefault(k) ==
    CASE k \in {"format", "returnFormat"} -> S("json")
      [] k = "type" -> S("flat")
      [] k \in {"rawOrLabel", "rawOrLabelHeaders"} -> S("raw")
      [] k \in {"exportCheckboxLabel", "exportSurveyFields", "exportDataAccessGroups"} ->
           S("false")
      [] k = "overwriteBehavior" -> S("normal")
      [] k = "dateFormat" -> S("YMD")
      [] k = "returnContent" -> S("count")
      [] k = "action" -> IF op = "import_file" THEN S("import") ELSE S("delete")

\* C3: a call without overrides sends the method's default mapping: exactly
\* its fields, token the client's token, content the method's identifier, the
\* positional identifiers under their field names with the values passed, and
\* every other field at its fixed default (data as import_records leaves it).
C3_DefaultDescriptor ==
    (pc # "idle" /\ (op = "delete_file" \/ (op \in OverrideOps /\ DOMAIN kwargs = {}))) =>
        /\ DOMAIN post_data = FieldNames
        /\ post_data["token"] = redcap_token
        /\ post_data["content"] = S(ContentName)
        /\ \A k \in DOMAIN post_data :
              CASE k \in {"token", "content"} -> TRUE
                [] k \in {"instrument", "event", "record", "field"} -> post_data[k] = args[k]
                [] k = "records[0]" -> post_data[k] = args.record
                [] k = "file" -> post_data[k] = args.filename
                [] k = "repeat_instance" ->
                     post_data[k] = IF op = "delete_form" THEN args.repeat_instance
                                    ELSE Str(args.repeat_instance)
                [] k = "data" -> post_data[k] = ExpectedData
                [] OTHER -> post_data[k] = FixedDefault(k)

C3_Witness ==
    /\ pc = "returned"
    /\ nreq = 1
    /\ op = "export_survey_link"
    /\ DOMAIN kwargs = {}
    /\ post_data["record"] = S("r2")
    /\ post_data["content"] = S("surveyLink")
    /\ post_data["token"] = Token

\* C4 as stated, for the calls that give no data override (so that the payload
\* is the positional one): import_records sends a JSON payload that does not
\* begin with "[" wrapped in a one-element array, a payload that begins with
\* "[" unchanged, and a payload that does not parse as it is, after a
\* diagnostic.
C4_AsStated ==
    (pc # "idle" /\ op = "import_records" /\ IsStr(args.data)
        /\ "data" \notin DOMAIN kwargs) =>
        IF args.data # <<>> /\ args.data[1] = "["
        THEN post_data["data"] = args.data
        ELSE IF JsonLoads(args.data).ok
        THEN post_data["data"] = <<"[">> \o JsonLoads(args.data).out \o <<"]">>
        ELSE post_data["data"] = args.data /\ ParseDiag \in diag

\* C4 as amended: the normalisation is made when the format field, after the
\* overrides, is 'json': then a string payload that parses and does not begin
\* with "[" is sent as the one-element array of its value ('{"a":1}' as
\* '[{"a": 1}]'), and one that does not parse is reported; in every other case
\* the data field is the data override when one is given, else the payload as
\* passed, and the call goes on to its request.
C4_DataNormalisation ==
    (pc # "idle" /\ op = "import_records") =>
        /\ post_data["data"] = ExpectedData
        /\ (args.data = PayloadObj /\ EffectiveFormat = S("json")) =>
              post_data["data"] = <<"[", "{", "\"a\"", ":", " ", "1", "}", "]">>
        /\ (args.data = PayloadArr /\ "data" \notin DOMAIN kwargs) =>
              post_data["data"] = PayloadArr
        /\ ParseDiag \in diag <=>
              /\ EffectiveFormat = S("json")
              /\ IsStr(args.data)
              /\ (args.data = <<>> \/ args.data[1] # "[")
              /\ ~JsonLoads(args.data).ok
        /\ pc = "request" \/ nreq = 1

C4_Witness ==
    /\ pc = "returned"
    /\ nreq = 1
    /\ op = "import_records"
    /\ args.data = PayloadObj
    /\ post_data["data"] = <<"[", "{", "\"a\"", ":", " ", "1", "}", "]">>

C4_WitnessUnparsed ==
    /\ pc = "returned"
    /\ op = "import_records"
    /\ args.data = PayloadBad
    /\ post_data["data"] = PayloadBad
    /\ ParseDiag \in diag

(***************************************************************************)
(* Properties of the value a call returns                                  *)
(***************************************************************************)
\* requests.post has returned a response
Responded == status # 0

ErrorField == Subscript(JsonLoads(body), "\"error\"")

\* the call has returned a value to a response of an error status
ReturnedOnError == Responded /\ status >= 400 /\ pc = "returned"

\* C5 as stated, for the calls that return under an error status: a body that
\* is a URL from end to end is returned as it is and json.loads is not tried on
\* it, the URL test coming before the tests of the status.
C5_AsStated ==
    (ReturnedOnError /\ IsBareUrl(body)) =>
        result = StrResult(body) /\ "json" \notin tried

\* C5 as amended: the status tests come first.  Under status 200 a body that
\* is a URL from end to end is returned as it is, in every mode, with neither
\* json.loads nor the XML parser tried on it; under another status the URL
\* test is not reached and the body is not returned.
C5_BareUrlReturned ==
    (Responded /\ IsBareUrl(body)) =>
        IF status = 200
        THEN pc = "returned" /\ result = StrResult(body) /\ tried = {"url"}
        ELSE result # StrResult(body) /\ "url" \notin tried

C5_Witness ==
    /\ pc = "returned"
    /\ op = "export_survey_link"
    /\ status = 200
    /\ body = <<"https://", "u">>
    /\ result = [k |-> "str", v |-> <<"https://", "u">>]

\* C6 as stated, for the calls that return under an error status: a body that
\* is valid JSON is returned decoded, not as a boolean, and the XML parser is
\* not tried.
C6_AsStated ==
    (ReturnedOnError /\ JsonLoads(body).ok /\ ErrorField.val # <<NoFileMsg>>) =>
        result = JsonResult(JsonLoads(body)) /\ "xml" \notin tried

\* C6 as amended: under status 200 a body that is valid JSON is returned
\* decoded, the XML parser is not tried, and {"error":"bad request"} comes back
\* as the decoded mapping.
C6_JsonDecoded ==
    (Responded /\ status = 200 /\ JsonLoads(body).ok) =>
        /\ pc = "returned"
        /\ result = JsonResult(JsonLoads(body))
        /\ "xml" \notin tried
        /\ body = BodyError =>
              result = [k |-> "json", v |-> <<"{", "\"error\"", ":", " ", "\"bad request\"", "}">>]

C6_Witness ==
    /\ pc = "returned"
    /\ status = 200
    /\ body = BodyError
    /\ result.k = "json"

\* what C7 says of a body that is not JSON
XmlOrRaw ==
    /\ pc = "returned"
    /\ IF XmlErrorText(body).ok
       THEN result = StrResult(XmlErrorText(body).text)
       ELSE result = StrResult(body) /\ (<<NotJsonXmlDiag>> \o body) \in diag
    /\ body = BodyXmlError => result = [k |-> "str", v |-> <<"u", "u">>]

\* C7 as stated, for the calls that return under an error status: a body that
\* is not JSON yields the text of hash > error when there is one, else the raw
\* body after a diagnostic.
C7_AsStated == (ReturnedOnError /\ ~JsonLoads(body).ok) => XmlOrRaw

\* C7 as amended: so it is under status 200, for a body that is not a URL from
\* end to end and is not the empty body of a file import or file delete.
C7_XmlErrorOrRaw ==
    (Responded /\ status = 200 /\ ~JsonLoads(body).ok /\ ~IsBareUrl(body)
        /\ ~(body = <<>> /\ mode \in {"import", "delete"})) => XmlOrRaw

C7_Witness ==
    /\ pc = "returned"
    /\ status = 200
    /\ body = BodyXmlError
    /\ result = [k |-> "str", v |-> <<"u", "u">>]

C7_WitnessRaw ==
    /\ pc = "returned"
    /\ status = 200
    /\ body = <<"u">>
    /\ result = [k |-> "str", v |-> <<"u">>]
    /\ <<NotJsonXmlDiag, "u">> \in diag

\* C8 as stated, for the calls that return under an error status: a file
\* delete answered with an empty body returns True.
C8_AsStated ==
    (ReturnedOnError /\ mode = "delete" /\ body = <<>>) => result = True

\* C8 as amended: a file delete (delete_file, or import_file with action
\* 'delete') answered with status 200 and an empty body returns True.
C8_EmptyDeleteIsTrue ==
    (Responded /\ status = 200 /\ body = <<>>
        /\ (op = "delete_file" \/ (op = "import_file" /\ DropsFile /\ mode # "none"))) =>
        pc = "returned" /\ result = True /\ mode = "delete"

C8_Witness ==
    /\ pc = "returned"
    /\ op = "delete_file"
    /\ status = 200
    /\ body = <<>>
    /\ result = True

C8_WitnessAction ==
    /\ pc = "returned"
    /\ op = "import_file"
    /\ "action" \in DOMAIN kwargs
    /\ status = 200
    /\ body = <<>>
    /\ result = True

\* C9: every response received, whatever its status and body, makes the call
\* return a value; the process is not ended.
C9_AsStated == Responded => pc = "returned"

\* C10 as stated: an error status with the error message 'There is no file to
\* delete for this record' returns True.
C10_AsStated ==
    (Responded /\ status >= 400 /\ ErrorField.ok /\ ErrorField.val = <<NoFileMsg>>) =>
        pc = "returned" /\ result = True

\* C10 as amended: status 400 with a JSON object whose error field is 'There
\* is no file to delete for this record' returns True, in every mode, after
\* the message is printed; under another error status the same body returns
\* False.
C10_NoFileIsTrue ==
    (Responded /\ status >= 400 /\ body = BodyNoFile) =>
        /\ pc = "returned"
        /\ IF status = 400
           THEN result = True /\ NoFilePrinted \in diag
           ELSE result = False /\ NoFilePrinted \notin diag

C10_Witness ==
    /\ pc = "returned"
    /\ op = "delete_file"
    /\ status = 400
    /\ body = BodyNoFile
    /\ result = True

(***************************************************************************)
(* Properties of the status tests                                          *)
(***************************************************************************)
\* the response is the one singled out by the test of line 63
NoFileCase == status = 400 /\ ErrorField.ok /\ ErrorField.val = <<NoFileMsg>>

\* what the "elif r.status_code != 200" branch prints for the response
FailureLogged ==
    (<<StatusDiag>> \o (IF XmlErrorText(body).ok THEN XmlErrorText(body).text ELSE body))
        \in diag

\* C11 as stated, for the calls that return: a status outside 200..299, the
\* 'no file to delete' case apart, is logged and returns False or the text of
\* the XML error, never the decoded or the raw body; a status in 200..299 does
\* not return False.
C11_AsStated ==
    (Responded /\ pc = "returned") =>
        IF status \in 200..299
        THEN result # False
        ELSE NoFileCase \/
             /\ FailureLogged
             /\ result \in {False, StrResult(XmlErrorText(body).text)}

\* C11 as amended: the test is "status other than 200".  A response of another
\* status, 201 included, that is not the 'no file to delete' case is logged and
\* returns False, the text of the XML error being part of the logged message
\* only; under status 400 that holds for a JSON object with an error field,
\* any other body ending the process.  A response of status 200 returns and
\* never returns False.
C11_NonOkIsFalse ==
    Responded =>
        IF status = 200
        THEN pc = "returned" /\ result # False /\ ~FailureLogged
        ELSE IF NoFileCase
        THEN result = True
        ELSE IF status = 400 /\ ~ErrorField.ok
        THEN pc = "exited" /\ result = Exit
        ELSE pc = "returned" /\ result = False /\ FailureLogged

C11_Witness ==
    /\ pc = "returned"
    /\ status = 500
    /\ body = BodyXmlError
    /\ result = False
    /\ <<StatusDiag, "u", "u">> \in diag

C11_WitnessCreated ==
    /\ pc = "returned"
    /\ status = 201
    /\ body = PayloadObj
    /\ result = False

(***************************************************************************)
(* The requests of a call                                                  *)
(***************************************************************************)
\* the calls that end before __core_api_code: export_file, whose body is
\* "pass", and import_file with action 'export'
NoRequestCall ==
    \/ op = "export_file"
    \/ op = "import_file" /\ "action" \in DOMAIN kwargs /\ kwargs["action"] = S("export")

\* C12 as stated: a call that has returned has made exactly one request.
C12_AsStated == pc = "returned" => nreq = 1

\* C12 as amended: no call makes more than one request.  A call that has
\* returned has made exactly one, except export_file and import_file with
\* action 'export', which return None and False with none made.  A call that
\* has ended the process has made one, or none when it is a file import ended
\* by the opening of its file.
C12_AtMostOneRequest ==
    /\ nreq \in {0, 1}
    /\ pc \in {"idle", "request"} => nreq = 0
    /\ pc = "returned" =>
          IF NoRequestCall
          THEN nreq = 0 /\ ~Responded
                  /\ result = (IF op = "export_file" THEN NoneResult ELSE False)
          ELSE nreq = 1 /\ Responded
    /\ pc = "exited" => nreq = 1 \/ (nreq = 0 /\ mode = "import")

C12_Witness ==
    /\ pc = "returned"
    /\ op = "export_records"
    /\ nreq = 1
    /\ status = 200

C12_WitnessExportFile ==
    /\ pc = "returned"
    /\ op = "export_file"
    /\ nreq = 0
    /\ result = NoneResult

C12_WitnessActionExport ==
    /\ pc = "returned"
    /\ op = "import_file"
    /\ kwargs = ("action" :> S("export"))
    /\ nreq = 0
    /\ result = False

(***************************************************************************)
(* The client across calls                                                 *)
(***************************************************************************)
\* C13: whatever calls were made, with whatever overrides and answers, the
\* client holds the token and the URL it was constructed with; a call given
\* an override sends the overridden field while the client keeps its own, and
\* a call given no override, made after calls that were given some, sends the
\* construction token, the method's content and the fixed defaults.
C13_ClientUnchanged ==
    /\ redcap_token = Token
    /\ redcap_url = Url
    /\ (pc # "idle" /\ op # "export_file" /\ "token" \notin DOMAIN kwargs) =>
          post_data["token"] = Token
    /\ (pc # "idle" /\ (op = "delete_file" \/ (op \in OverrideOps /\ DOMAIN kwargs = {}))) =>
          /\ post_data["content"] = S(ContentName)
          /\ \A k \in DOMAIN post_data \cap
                      {"format", "returnFormat", "type", "rawOrLabel", "rawOrLabelHeaders",
                       "exportCheckboxLabel", "exportSurveyFields",
                       "exportDataAccessGroups", "overwriteBehavior", "dateFormat",
                       "returnContent", "action"} :
                post_data[k] = FixedDefault(k)

\* a call without overrides made after a call that was given a token or a
\* content override
C13_Witness ==
    /\ overridden
    /\ pc = "returned"
    /\ op = "export_events"
    /\ DOMAIN kwargs = {}
    /\ nreq = 1
    /\ post_data["token"] = Token
    /\ post_data["content"] = S("event")
    /\ redcap_token = Token

C13_WitnessOverride ==
    /\ pc = "returned"
    /\ DOMAIN kwargs = {"token", "content"}
    /\ post_data["token"] = S("x")
    /\ post_data["content"] = S("x")
    /\ redcap_token = Token
    /\ redcap_url = Url

(***************************************************************************)
(* File uploads and deletes                                                *)
(***************************************************************************)
\* C14: import_file returns None when the upload is successful, that is when
\* the server answers status 200 with an empty body; no other answer to an
\* upload makes it return None.
C14_AsStated ==
    (pc = "returned" /\ op = "import_file" /\ mode = "import") =>
        (result = NoneResult <=> (status = 200 /\ body = <<>>))

\* C15: delete_file, whatever record_id, field, event and repeat_instance it
\* is given, sends a descriptor whose action is 'delete' and which has no file
\* field, through __core_api_code with delete_file=True and not import_file:
\* the opening of a local file is never reached, so the filename None passed
\* on to import_file is not used, and the process is ended only after a
\* request was made.
C15_DeleteFileMode ==
    op = "delete_file" =>
        /\ args.filename = None
        /\ post_data["action"] = S("delete")
        /\ "file" \notin DOMAIN post_data
        /\ post_data["record"] = args.record
        /\ post_data["field"] = args.field
        /\ post_data["event"] = args.event
        /\ mode = "delete"
        /\ ~ENABLED FileOpenFailure
        /\ pc = "exited" => nreq = 1

C15_Witness ==
    /\ pc = "returned"
    /\ op = "delete_file"
    /\ args.repeat_instance = Int7
    /\ post_data["repeat_instance"] = <<"7">>
    /\ nreq = 1
    /\ status = 200
    /\ result = True

====
